---------------------------- MODULE Spec2Model ----------------------------
(***************************************************************************)
(* Model of the clario project store: backend/src/app/services/project.py *)
(* (ProjectService), the validation facade it calls                         *)
(* (services/validation.py), the document model (models/spec.py) and the   *)
(* endpoints in front of them (api/projects.py, api/validation.py).         *)
(*                                                                          *)
(* The specifications share the variables:                                  *)
(*   Spec      every store operation is one step (sequential callers);      *)
(*   ConcSpec  request handlers run the operations statement by statement,  *)
(*             interleaved, as the threadpool of the web layer runs them;   *)
(*   ValSpec   the validator is applied to one document of a bounded set;   *)
(*   RoundTripSpec  one document is created, saved back and loaded.         *)
(*   VersionSpec  two version strings are compared;                         *)
(*   ParSpec   two handlers, each on a project of its own, run writing and  *)
(*             reading operations statement by statement;                   *)
(*   ApiSpec   every request to a projects endpoint is one step.            *)
(***************************************************************************)
EXTENDS Integers, Sequences, FiniteSets, TLC

(***************************************************************************)
(* Bounds of the model.                                                    *)
(***************************************************************************)
\* the clock runs over 0..MaxTime seconds
MaxTime == 1
\* seconds per calendar day of the model's clock (scale of date.today())
SecondsPerDay == 1
\* change histories are capped at this length
MaxHist == 2
\* snapshot files per project are capped at this number
MaxSnaps == 2
\* documents handed to the validator have up to this many scenarios,
MaxScenarios == 3
\* each with up to this many dependencies,
MaxDeps == 2
\* and up to this many items on each side of the scope
MaxScope == 2
\* version strings have up to this many characters
MaxVersionLen == 3

(***************************************************************************)
(* Values.                                                                  *)
(***************************************************************************)
\* Python's None, and a key that is absent from a JSON object
None == <<"None">>
Absent == <<"absent">>

\* project identifiers the callers use
Ids == {"pa", "pb"}
\* the one the callers of Spec and ConcSpec use
CallerIds == {"pa"}

\* date.isoformat() and the parse pydantic applies to a date field
IsoFormat(d) == <<"iso", d>>
ParseDate(s) == s[2]

\* date.today() and datetime.now() (second resolution) read from the clock t
Today(t) == t \div SecondsPerDay
Timestamp(t) == t

(***************************************************************************)
(* Sequence helpers.                                                        *)
(***************************************************************************)
Range(s) == {s[i] : i \in DOMAIN s}

RECURSIVE Flatten(_)
Flatten(ss) == IF ss = <<>> THEN <<>> ELSE Head(ss) \o Flatten(Tail(ss))

IsPrefix(s, t) == Len(s) <= Len(t) /\ SubSeq(t, 1, Len(s)) = s

(***************************************************************************)
(* models/spec.py: the document, in memory (ProjectSpec, field names) and   *)
(* as JSON (aliases, dates as ISO strings, None-valued keys left out).      *)
(***************************************************************************)
\* Strings the code takes apart or tests for emptiness are sequences of tokens:
\* a scenario id is <<prefix, rest>>, "scn-" being the prefix the pattern and
\* validate_dependencies ask for; a description is its words; <<>> is "".
StartsWithScn(x) == x[1] = "scn-"

\* ChangeHistory: model_validate of one JSON entry and model_dump of one entry
ChangeHistoryValidate(e) ==
    [date |-> ParseDate(e.date), description |-> e.description,
     related |-> IF e.related = Absent THEN None ELSE e.related]

ChangeHistoryDump(e) ==
    [date |-> IsoFormat(e.date), description |-> e.description,
     related |-> IF e.related = None THEN Absent ELSE e.related]

\* Scenario: model_validate and model_dump of one scenario
ScenarioValidate(s) ==
    [id |-> IF s.id = Absent THEN None ELSE s.id,
     dependencies |-> s.dependencies,
     level |-> IF s.level = Absent THEN None ELSE s.level]

\* a model_dump of a scenario that loses the dependencies: what C16 must tell
\* apart from model_dump
ScenarioDumpNoDependencies(s) ==
    [id |-> IF s.id = None THEN Absent ELSE s.id,
     dependencies |-> <<>>,
     level |-> IF s.level = None THEN Absent ELSE s.level]

ScenarioDump(s) ==
    [id |-> IF s.id = None THEN Absent ELSE s.id,
     dependencies |-> s.dependencies,
     level |-> IF s.level = None THEN Absent ELSE s.level]

\* the field errors pydantic collects for a raw document, for the constraints
\* of the fields modelled: CoreIdea.problem_statement and
\* ChangeHistory.description are not empty, Scenario.id matches its pattern,
\* every dependency starts with "scn-"
SchemaErrors(data) ==
    (IF data.problemStatement = ""
       THEN <<[field |-> "coreIdea.problemStatement", type |-> "string_too_short"]>>
       ELSE <<>>)
    \o Flatten([i \in DOMAIN data.scenarios |->
         (IF data.scenarios[i].id # Absent /\ ~StartsWithScn(data.scenarios[i].id)
            THEN <<[field |-> "scenarios.id", type |-> "string_pattern_mismatch"]>>
            ELSE <<>>)
         \o Flatten([j \in DOMAIN data.scenarios[i].dependencies |->
              IF StartsWithScn(data.scenarios[i].dependencies[j]) THEN <<>>
              ELSE <<[field |-> "scenarios.dependencies", type |-> "value_error"]>>])])
    \o Flatten([i \in DOMAIN data.changeHistory |->
         IF data.changeHistory[i].description = <<>>
           THEN <<[field |-> "changeHistory.description", type |-> "string_too_short"]>>
           ELSE <<>>])

\* ProjectSpec.model_validate(data) of a schema-valid raw document
ModelValidate(data) ==
    [last_updated |-> ParseDate(data.lastUpdated),
     problem_statement |-> data.problemStatement,
     in_scope |-> data.inScope,
     out_of_scope |-> data.outOfScope,
     scenarios |-> [i \in DOMAIN data.scenarios |-> ScenarioValidate(data.scenarios[i])],
     change_history |->
        [i \in DOMAIN data.changeHistory |-> ChangeHistoryValidate(data.changeHistory[i])]]

\* spec.model_dump(by_alias=True, exclude_none=True)
ModelDump(spec) ==
    [lastUpdated |-> IsoFormat(spec.last_updated),
     problemStatement |-> spec.problem_statement,
     inScope |-> spec.in_scope,
     outOfScope |-> spec.out_of_scope,
     scenarios |-> [i \in DOMAIN spec.scenarios |-> ScenarioDump(spec.scenarios[i])],
     changeHistory |->
        [i \in DOMAIN spec.change_history |-> ChangeHistoryDump(spec.change_history[i])]]

(***************************************************************************)
(* services/validation.py                                                   *)
(***************************************************************************)
ValidationResult(ok, errs, warns) == [is_valid |-> ok, errors |-> errs, warnings |-> warns]

\* validate_with_pydantic
ValidateWithPydantic(data) ==
    LET errs == SchemaErrors(data)
    IN  ValidationResult(errs = <<>>, errs, <<>>)

\* scenario_deps of validate_business_rules: id -> set(dependencies), a later
\* scenario with the same id replacing an earlier one, None ids left out
ScenarioDeps(spec) ==
    LET ids == {spec.scenarios[i].id : i \in DOMAIN spec.scenarios} \ {None}
        lastOf(x) == CHOOSE i \in DOMAIN spec.scenarios :
                        /\ spec.scenarios[i].id = x
                        /\ \A j \in DOMAIN spec.scenarios :
                              spec.scenarios[j].id = x => j <= i
    IN  [x \in ids |-> Range(spec.scenarios[lastOf(x)].dependencies)]

\* a scope check that looks at the first inScope item only: what C19 must
\* tell apart from the check of lines 111-122
ScopeOverlapErrorsFirstItem(spec) ==
    LET overlap == IF spec.in_scope = <<>> THEN {}
                   ELSE {spec.in_scope[1]} \cap Range(spec.out_of_scope)
    IN  IF overlap # {}
          THEN <<[type |-> "scope_overlap", field |-> "scope", items |-> overlap]>>
          ELSE <<>>

\* validate_business_rules: the scope_overlap error
ScopeOverlapErrors(spec) ==
    LET overlap == Range(spec.in_scope) \cap Range(spec.out_of_scope)
    IN  IF overlap # {}
          THEN <<[type |-> "scope_overlap", field |-> "scope", items |-> overlap]>>
          ELSE <<>>

\* a dependency check that reports a missing id once per scenario, however
\* often the scenario lists it: what C18 must tell apart from the check of
\* lines 124-137
MissingDependencyErrorsOnce(spec) ==
    LET scenario_ids == {spec.scenarios[i].id : i \in DOMAIN spec.scenarios}
    IN  Flatten([i \in DOMAIN spec.scenarios |->
          Flatten([j \in DOMAIN spec.scenarios[i].dependencies |->
            IF /\ spec.scenarios[i].dependencies[j] \notin scenario_ids
               /\ \A k \in 1..(j - 1) :
                     spec.scenarios[i].dependencies[k] # spec.scenarios[i].dependencies[j]
              THEN <<[type |-> "missing_dependency", field |-> "scenarios",
                      scenario_id |-> IF spec.scenarios[i].id = None
                                        THEN <<"unknown">> ELSE spec.scenarios[i].id,
                      items |-> {spec.scenarios[i].dependencies[j]}]>>
              ELSE <<>>])])

\* validate_business_rules: one missing_dependency error per occurrence
MissingDependencyErrors(spec) ==
    LET scenario_ids == {spec.scenarios[i].id : i \in DOMAIN spec.scenarios}
    IN  Flatten([i \in DOMAIN spec.scenarios |->
          Flatten([j \in DOMAIN spec.scenarios[i].dependencies |->
            IF spec.scenarios[i].dependencies[j] \notin scenario_ids
              THEN <<[type |-> "missing_dependency", field |-> "scenarios",
                      scenario_id |-> IF spec.scenarios[i].id = None
                                        THEN <<"unknown">> ELSE spec.scenarios[i].id,
                      items |-> {spec.scenarios[i].dependencies[j]}]>>
              ELSE <<>>])])

\* validate_business_rules: the mutual-pair check (only with more than one
\* scenario).  The code iterates the dict scenario_deps and the sets in it;
\* the errors are listed here by the scenario that holds each id last, each
\* of its dependencies once.
CircularDependencyErrors(spec) ==
    IF Len(spec.scenarios) > 1
      THEN LET deps == ScenarioDeps(spec)
               lastOf(i) == \A k \in DOMAIN spec.scenarios :
                               spec.scenarios[k].id = spec.scenarios[i].id => k <= i
               firstDep(s, j) == \A k \in 1..(j - 1) : s[k] # s[j]
           IN  Flatten([i \in DOMAIN spec.scenarios |->
                 IF spec.scenarios[i].id = None \/ ~lastOf(i) THEN <<>>
                 ELSE LET sid == spec.scenarios[i].id
                          mine == spec.scenarios[i].dependencies
                      IN  Flatten([j \in DOMAIN mine |->
                            IF /\ firstDep(mine, j)
                               /\ mine[j] \in DOMAIN deps
                               /\ sid \in deps[mine[j]]
                              THEN <<[type |-> "circular_dependency", field |-> "scenarios",
                                      scenario_id |-> sid, items |-> {sid, mine[j]}]>>
                              ELSE <<>>])])
      ELSE <<>>

\* an MVP rule that already warns at exactly one half: what C23 must tell
\* apart from the rule of lines 157-165
MvpWarningsAtHalf(spec) ==
    LET mvp_count == Cardinality({i \in DOMAIN spec.scenarios : spec.scenarios[i].level = <<"MVP">>})
        total_count == Len(spec.scenarios)
    IN  IF spec.scenarios # <<>> /\ 2 * mvp_count >= total_count
          THEN <<"MVP overload">> ELSE <<>>

\* validate_business_rules: the MVP warning
MvpWarnings(spec) ==
    LET mvp_count == Cardinality({i \in DOMAIN spec.scenarios : spec.scenarios[i].level = <<"MVP">>})
        total_count == Len(spec.scenarios)
    IN  IF spec.scenarios # <<>> /\ 2 * mvp_count > total_count
          THEN <<"MVP overload">> ELSE <<>>

\* a validate_business_rules for which a warning makes the document invalid:
\* what C22 must tell apart from line 168
ValidateBusinessRulesStrict(spec) ==
    LET errs == ScopeOverlapErrors(spec) \o MissingDependencyErrors(spec)
                  \o CircularDependencyErrors(spec)
    IN  ValidationResult(Len(errs) = 0 /\ MvpWarnings(spec) = <<>>, errs, MvpWarnings(spec))

\* validate_business_rules
ValidateBusinessRules(spec) ==
    LET errs == ScopeOverlapErrors(spec) \o MissingDependencyErrors(spec)
                  \o CircularDependencyErrors(spec)
    IN  ValidationResult(Len(errs) = 0, errs, MvpWarnings(spec))

\* validate_full
ValidateFull(data) ==
    LET pydantic_result == ValidateWithPydantic(data)
    IN  IF ~pydantic_result.is_valid THEN pydantic_result
        ELSE LET business_result == ValidateBusinessRules(ModelValidate(data))
             IN  ValidationResult(business_result.is_valid, business_result.errors,
                                  business_result.warnings)

\* validate_with_json_schema
ValidateWithJsonSchema(data) == ValidateWithPydantic(data)

\* str.split('.'): a string is the sequence of its characters
RECURSIVE SplitDots(_)
SplitDots(s) ==
    IF \A i \in DOMAIN s : s[i] # "."
      THEN <<s>>
      ELSE LET dot == CHOOSE i \in DOMAIN s : s[i] = "." /\ \A j \in 1..(i - 1) : s[j] # "."
           IN  <<SubSeq(s, 1, dot - 1)>> \o SplitDots(SubSeq(s, dot + 1, Len(s)))

\* the decimal digits of the model's strings and their values
DigitValue == [c \in {"1", "2"} |-> IF c = "1" THEN 1 ELSE 2]

RECURSIVE DigitsValue(_)
DigitsValue(x) ==
    IF x = <<>> THEN 0 ELSE 10 * DigitsValue(SubSeq(x, 1, Len(x) - 1)) + DigitValue[x[Len(x)]]

\* int(x): an optional sign, then one or more digits; anything else raises
\* ValueError
PyInt(x) ==
    LET digits == IF x # <<>> /\ x[1] = "+" THEN Tail(x) ELSE x
    IN  IF digits # <<>> /\ \A i \in DOMAIN digits : digits[i] \in DOMAIN DigitValue
          THEN [raised |-> FALSE, value |-> DigitsValue(digits)]
          ELSE [raised |-> TRUE, value |-> 0]

\* [int(x) for x in version.split('.')]
VersionParts(version) ==
    LET parts == SplitDots(version)
    IN  [raised |-> \E i \in DOMAIN parts : PyInt(parts[i]).raised,
         parts |-> [i \in DOMAIN parts |-> PyInt(parts[i]).value]]

\* is_version_compatible with both versions given
IsVersionCompatible(spec_version, schema_version) ==
    LET spec_parts == VersionParts(spec_version)
        schema_parts == VersionParts(schema_version)
    IN  IF spec_parts.raised \/ schema_parts.raised THEN FALSE
        ELSE spec_parts.parts[1] = schema_parts.parts[1]

(***************************************************************************)
(* api/validation.py                                                        *)
(***************************************************************************)
\* validation types a request names; the last is none the handler knows
ValidationTypes == {"pydantic", "json_schema", "business", "full", "other"}

\* a validate_spec whose business mode runs the business rules even when the
\* schema fails, on what the schema pass could read, and returns both error
\* lists: what C21 must tell apart from validate_spec
ValidateSpecMerging(data, validation_type) ==
    CASE validation_type = "pydantic" -> [status |-> 200, result |-> ValidateWithPydantic(data)]
      [] validation_type = "json_schema" ->
            [status |-> 200, result |-> ValidateWithJsonSchema(data)]
      [] validation_type \in {"business", "full"} ->
            LET pydantic_result == ValidateWithPydantic(data)
                business_result == ValidateBusinessRules(ModelValidate(data))
            IN  [status |-> 200,
                 result |-> ValidationResult(
                     pydantic_result.is_valid /\ business_result.is_valid,
                     pydantic_result.errors \o business_result.errors,
                     business_result.warnings)]
      [] OTHER -> [status |-> 500, result |-> None]

\* validate_spec: the response status and the fields of ValidationResponse
\* taken from the result; the HTTPException of lines 49-52 is caught by the
\* handler of line 60 and leaves as a 500
ValidateSpec(data, validation_type) ==
    CASE validation_type = "pydantic" -> [status |-> 200, result |-> ValidateWithPydantic(data)]
      [] validation_type = "json_schema" ->
            [status |-> 200, result |-> ValidateWithJsonSchema(data)]
      [] validation_type = "business" ->
            LET pydantic_result == ValidateWithPydantic(data)
            IN  IF ~pydantic_result.is_valid
                  THEN [status |-> 200, result |-> pydantic_result]
                  ELSE [status |-> 200,
                        result |-> ValidateBusinessRules(ModelValidate(data))]
      [] validation_type = "full" -> [status |-> 200, result |-> ValidateFull(data)]
      [] OTHER -> [status |-> 500, result |-> None]

(***************************************************************************)
(* The stored files.  A file holds a complete JSON document, nothing (just  *)
(* opened for writing: truncated), or bytes that are no JSON document.      *)
(***************************************************************************)
NoFile == [kind |-> "nofile"]
EmptyFile == [kind |-> "empty"]
JsonFile(data) == [kind |-> "json", data |-> data]
GarbageFile(n) == [kind |-> "garbage", size |-> n]

\* length of the serialized document, counted in list elements instead of
\* bytes: it grows with every element
JsonSize(data) ==
    1 + Len(data.inScope) + Len(data.outOfScope) + Len(data.scenarios)
      + Len(data.changeHistory)

FileSize(f) ==
    CASE f.kind = "json" -> JsonSize(f.data)
      [] f.kind = "garbage" -> f.size
      [] OTHER -> 0

\* json.dump through a handle opened with 'w': the bytes go to offset 0 of
\* whatever the file holds when the handle is flushed
WriteAtStart(old, data) ==
    IF FileSize(old) > JsonSize(data) THEN GarbageFile(FileSize(old)) ELSE JsonFile(data)

\* description.replace(' ', '_')
ReplaceSpaces(description) ==
    [i \in DOMAIN description |-> IF description[i] = " " THEN "_" ELSE description[i]]

\* the descriptions the store itself uses: "项目创建" and "恢复前备份"
DescCreated == <<"project-created">>
DescBackup == <<"pre-restore-backup">>

\* the description of the change-history entries the store writes itself
CreatedEntry(id, t) ==
    [date |-> Today(t), description |-> <<"created", id>>, related |-> <<"project">>]
RestoredEntry(name, t) ==
    [date |-> Today(t), description |-> <<"restored", name>>, related |-> <<"project">>]

\* datetime.strptime(timestamp_str, "%Y%m%d_%H%M%S") of the first two parts
\* of a file name: the clock value they stand for, or ValueError.  A file
\* that is not named after a time has NoTimestamp there.
NoTimestamp == -1
ParseTimestamp(ts) == [raised |-> ts < 0, value |-> ts]

\* f"{timestamp}_{description.replace(' ', '_')}.json"
SnapshotFileName(t, description) ==
    [ts |-> Timestamp(t), desc |-> ReplaceSpaces(description)]

\* possible outcomes of an operation: "ok" or the exception raised
Ok == "ok"
NotFound == "ProjectNotFoundError"
AlreadyExists == "ValueError:exists"
InvalidSpec == "ValueError:invalid"
SnapshotNotFound == "FileNotFoundError:snapshot"
OsFileNotFound == "FileNotFoundError"
OsFileExists == "FileExistsError"
OsWriteError == "OSError"

Result(st, out, ret) == [fs |-> st, out |-> out, ret |-> ret]

\* projects_root before any project is created
EmptyStore ==
    [dir |-> [i \in Ids |-> FALSE],
     live |-> [i \in Ids |-> NoFile],
     snaps |-> [i \in Ids |-> <<>>]]

(***************************************************************************)
(* ProjectService, operation by operation, on a store st at clock t.       *)
(***************************************************************************)
\* project_dir.mkdir(parents=True) and the two sub-directories
MakeDirs(st, id) ==
    IF st.dir[id] THEN Result(st, OsFileExists, None)
    ELSE Result([st EXCEPT !.dir[id] = TRUE], Ok, None)

\* open(spec_file, 'w'): creates or truncates the live file
OpenForWrite(st, id) ==
    IF ~st.dir[id] THEN Result(st, OsFileNotFound, None)
    ELSE Result([st EXCEPT !.live[id] = EmptyFile], Ok, None)

\* json.dump(data, f) and the close of the handle; when the directory was
\* removed meanwhile the bytes go to the unlinked file and no file appears
DumpJson(st, id, spec) ==
    IF st.live[id] = NoFile THEN Result(st, Ok, None)
    ELSE Result([st EXCEPT !.live[id] = WriteAtStart(@, ModelDump(spec))], Ok, None)

\* _save_spec
SaveSpec(st, id, spec) ==
    LET opened == OpenForWrite(st, id)
    IN  IF opened.out # Ok THEN opened ELSE DumpJson(opened.fs, id, spec)

\* save_project without the stamp of line 119: what C14 must tell apart from
\* save_project
StampSpecKeepDate(spec, change_description, t) ==
    IF change_description # None /\ change_description # <<>>
      THEN [spec EXCEPT !.change_history =
              Append(@, [date |-> Today(t), description |-> change_description,
                         related |-> None])]
      ELSE spec

\* save_project up to the call of _save_spec: the stamp and the new entry
StampSpec(spec, change_description, t) ==
    LET stamped == [spec EXCEPT !.last_updated = Today(t)]
    IN  IF change_description # None /\ change_description # <<>>
          THEN [stamped EXCEPT !.change_history =
                  Append(@, [date |-> Today(t), description |-> change_description,
                             related |-> None])]
          ELSE stamped

\* save_project; ret is the instance as the call leaves it (it is stamped in
\* place, and restore_snapshot returns it)
SaveProject(st, id, spec, change_description, t) ==
    IF ~st.dir[id] THEN Result(st, NotFound, None)
    ELSE LET stamped == StampSpec(spec, change_description, t)
             saved == SaveSpec(st, id, stamped)
         IN  Result(saved.fs, saved.out, stamped)

\* _create_snapshot: shutil.copy2(spec_file, snapshot_file)
CreateSnapshot(st, id, description, t) ==
    LET name == SnapshotFileName(t, description)
    IN  IF st.live[id] = NoFile \/ ~st.dir[id] THEN Result(st, OsFileNotFound, None)
        ELSE Result([st EXCEPT !.snaps[id] = (name :> st.live[id]) @@ @], Ok, name)

\* load_project without its validation step (lines 101-104 left out): what
\* C6 must tell apart from load_project
LoadProjectUnchecked(st, id) ==
    LET f == st.live[id]
    IN  IF f = NoFile THEN Result(st, NotFound, None)
        ELSE IF f.kind # "json" THEN Result(st, InvalidSpec, None)
        ELSE Result(st, Ok, ModelValidate(f.data))

\* load_project; json.load of a file that holds no JSON document raises
\* JSONDecodeError, a ValueError like the one of line 104
LoadProject(st, id) ==
    LET f == st.live[id]
    IN  IF f = NoFile THEN Result(st, NotFound, None)
        ELSE IF f.kind # "json" THEN Result(st, InvalidSpec, None)
        ELSE IF ~ValidateFull(f.data).is_valid THEN Result(st, InvalidSpec, None)
        ELSE Result(st, Ok, ModelValidate(f.data))

\* create_project without the initial snapshot of line 87: what C13 must tell
\* apart from create_project
CreateProjectNoSnapshot(st, id, initial_spec, t) ==
    IF st.dir[id] THEN Result(st, AlreadyExists, None)
    ELSE IF ~ValidateFull(initial_spec).is_valid THEN Result(st, InvalidSpec, None)
    ELSE LET made == MakeDirs(st, id)
             spec == [ModelValidate(initial_spec) EXCEPT
                        !.change_history = Append(@, CreatedEntry(id, t))]
             saved == SaveSpec(made.fs, id, spec)
         IN  IF made.out # Ok THEN made
             ELSE Result(saved.fs, saved.out, spec)

\* create_project
CreateProject(st, id, initial_spec, t) ==
    IF st.dir[id] THEN Result(st, AlreadyExists, None)
    ELSE IF ~ValidateFull(initial_spec).is_valid THEN Result(st, InvalidSpec, None)
    ELSE LET made == MakeDirs(st, id)
             spec == [ModelValidate(initial_spec) EXCEPT
                        !.change_history = Append(@, CreatedEntry(id, t))]
             saved == SaveSpec(made.fs, id, spec)
             snapped == CreateSnapshot(saved.fs, id, DescCreated, t)
         IN  IF made.out # Ok THEN made
             ELSE IF saved.out # Ok THEN saved
             ELSE Result(snapped.fs, snapped.out, spec)

\* a delete_project that removes projects_root, every project with it: what
\* C27 must tell apart from delete_project
DeleteProjectsRoot(st, id) ==
    IF ~st.dir[id] THEN Result(st, NotFound, None)
    ELSE Result(EmptyStore, Ok, None)

\* a delete_project that removes spec.json and leaves the snapshot files:
\* what C15 must tell apart from delete_project
DeleteProjectKeepSnapshots(st, id) ==
    IF ~st.dir[id] THEN Result(st, NotFound, None)
    ELSE Result([st EXCEPT !.dir[id] = FALSE, !.live[id] = NoFile], Ok, None)

\* delete_project
DeleteProject(st, id) ==
    IF ~st.dir[id] THEN Result(st, NotFound, None)
    ELSE Result([st EXCEPT !.dir[id] = FALSE, !.live[id] = NoFile, !.snaps[id] = <<>>],
                Ok, None)

\* shutil.copy2(snapshot_file, spec_file) of restore_snapshot
CopyBack(st, id, snapshot_filename) ==
    IF snapshot_filename \notin DOMAIN st.snaps[id] THEN Result(st, OsFileNotFound, None)
    ELSE Result([st EXCEPT !.live[id] = st.snaps[id][snapshot_filename]], Ok, None)

\* a restore_snapshot that takes its backup (line 231) before it looks for
\* the snapshot (lines 227-228): what C12 must tell apart from
\* restore_snapshot
RestoreSnapshotBackupFirst(st, id, snapshot_filename, t) ==
    LET backup == CreateSnapshot(st, id, DescBackup, t)
    IN  IF backup.out = Ok /\ snapshot_filename \notin DOMAIN st.snaps[id]
          THEN Result(backup.fs, SnapshotNotFound, None)
        ELSE IF snapshot_filename \notin DOMAIN st.snaps[id]
          THEN Result(st, SnapshotNotFound, None)
        ELSE LET copied == CopyBack(backup.fs, id, snapshot_filename)
                 loaded == LoadProject(copied.fs, id)
             IN  IF loaded.out # Ok THEN loaded
                 ELSE LET spec == [loaded.ret EXCEPT !.change_history =
                                     Append(@, RestoredEntry(snapshot_filename, t))]
                      IN  SaveProject(copied.fs, id, spec, None, t)

\* restore_snapshot
RestoreSnapshot(st, id, snapshot_filename, t) ==
    IF snapshot_filename \notin DOMAIN st.snaps[id]
      THEN Result(st, SnapshotNotFound, None)
    ELSE LET backup == CreateSnapshot(st, id, DescBackup, t)
         IN  IF backup.out # Ok THEN backup
             ELSE LET copied == CopyBack(backup.fs, id, snapshot_filename)
                      loaded == LoadProject(copied.fs, id)
                  IN  IF loaded.out # Ok THEN loaded
                      ELSE LET spec == [loaded.ret EXCEPT !.change_history =
                                          Append(@, RestoredEntry(snapshot_filename, t))]
                           IN  SaveProject(copied.fs, id, spec, None, t)

\* sorted(items, key=..., reverse=True): the items, the domain of the
\* function key, largest key first; items with equal keys keep the order the
\* directory listing gave them, which is any order
SortedDesc(key) ==
    IF DOMAIN key = {} THEN <<>>
    ELSE CHOOSE s \in [1..Cardinality(DOMAIN key) -> DOMAIN key] :
            /\ \A x \in DOMAIN key : \E i \in DOMAIN s : s[i] = x
            /\ \A i, j \in DOMAIN s : i < j => key[s[i]] >= key[s[j]]

\* a list_projects that takes every stored JSON document, validated or not:
\* what C25 must tell apart from list_projects
ListProjectsUnvalidated(st) ==
    LET projects ==
          {[id |-> id,
            name |-> LoadProjectUnchecked(st, id).ret.problem_statement,
            last_updated |-> LoadProjectUnchecked(st, id).ret.last_updated] :
              id \in {i \in Ids : /\ st.dir[i]
                                   /\ st.live[i] # NoFile
                                   /\ LoadProjectUnchecked(st, i).out = Ok}}
    IN  SortedDesc([x \in projects |-> x.last_updated])

\* list_projects: a directory without a loadable spec.json is left out.  The
\* name is the problem statement, which the code cuts after 50 characters;
\* the statements of the model are shorter.
ListProjects(st) ==
    LET projects ==
          {[id |-> id,
            name |-> LoadProject(st, id).ret.problem_statement,
            last_updated |-> LoadProject(st, id).ret.last_updated] :
              id \in {i \in Ids : /\ st.dir[i]
                                   /\ st.live[i] # NoFile
                                   /\ LoadProject(st, i).out = Ok}}
    IN  SortedDesc([x \in projects |-> x.last_updated])

\* description.replace("_", " ")
ReplaceUnderscores(description) ==
    [i \in DOMAIN description |-> IF description[i] = "_" THEN " " ELSE description[i]]

\* a list_snapshots that lists every file of the directory, under the
\* timestamp field of its name: what C26 must tell apart from list_snapshots
ListSnapshotsUnparsed(st, id) ==
    IF ~st.dir[id] THEN <<>>
    ELSE LET snapshots ==
               {[filename |-> n, timestamp |-> n.ts,
                 description |-> ReplaceUnderscores(n.desc),
                 size |-> FileSize(st.snaps[id][n])] : n \in DOMAIN st.snaps[id]}
         IN  SortedDesc([x \in snapshots |-> x.timestamp])

\* list_snapshots: the files of the snapshot directory whose name starts with
\* a timestamp, newest first; the others are passed over (except ValueError:
\* continue)
ListSnapshots(st, id) ==
    IF ~st.dir[id] THEN <<>>
    ELSE LET snapshots ==
               {[filename |-> n, timestamp |-> ParseTimestamp(n.ts).value,
                 description |-> ReplaceUnderscores(n.desc),
                 size |-> FileSize(st.snaps[id][n])] :
                   n \in {m \in DOMAIN st.snaps[id] : ~ParseTimestamp(m.ts).raised}}
         IN  SortedDesc([x \in snapshots |-> x.timestamp])

\* a list_snapshots that makes the snapshot directory when it is missing:
\* what C30 must tell apart from list_snapshots
ListSnapshotsMakingDirs(st, id) ==
    Result([st EXCEPT !.dir[id] = TRUE], Ok, ListSnapshots(st, id))

\* list_snapshots as a store operation: the store as it leaves it, the
\* outcome, the list
ListSnapshotsOp(st, id) == Result(st, Ok, ListSnapshots(st, id))

\* list_projects as a store operation
ListProjectsOp(st) == Result(st, Ok, ListProjects(st))

\* validate_project; json.load of a file that holds no JSON document raises
\* JSONDecodeError, a ValueError
ValidateProject(st, id) ==
    LET f == st.live[id]
    IN  IF f = NoFile THEN Result(st, NotFound, None)
        ELSE IF f.kind # "json" THEN Result(st, InvalidSpec, None)
        ELSE Result(st, Ok, ValidateFull(f.data))

\* get_project_stats, for the fields of the document modelled
GetProjectStats(st, id) ==
    LET loaded == LoadProject(st, id)
        snapshots == ListSnapshotsOp(loaded.fs, id)
        validation == ValidateProject(snapshots.fs, id)
    IN  IF loaded.out # Ok THEN loaded
        ELSE IF validation.out # Ok THEN validation
        ELSE Result(validation.fs, Ok,
                    [project_id |-> id,
                     last_updated |-> loaded.ret.last_updated,
                     scenarios |-> Len(loaded.ret.scenarios),
                     changes |-> Len(loaded.ret.change_history),
                     snapshots |-> Len(snapshots.ret),
                     validation |-> validation.ret])

(***************************************************************************)
(* api/projects.py: the endpoints.  A response is the store as the handler  *)
(* leaves it, the status code, the outcome of the store that led to it and  *)
(* the body.                                                                *)
(***************************************************************************)
HTTP_200_OK == 200
HTTP_201_CREATED == 201
HTTP_204_NO_CONTENT == 204
HTTP_400_BAD_REQUEST == 400
HTTP_404_NOT_FOUND == 404
HTTP_500_INTERNAL_SERVER_ERROR == 500

\* the exceptions of the store that are ValueError: "already exists" and
\* "validation failed" (project.py:58, 63, 104), JSONDecodeError
ValueErrors == {AlreadyExists, InvalidSpec}

\* the status code of a handler that answers ok_status when no exception is
\* raised, 404 to the exceptions of not_found, 400 to those of bad_request
\* and 500 to every other one
StatusCode(out, ok_status, not_found, bad_request) ==
    IF out = Ok THEN ok_status
    ELSE IF out \in not_found THEN HTTP_404_NOT_FOUND
    ELSE IF out \in bad_request THEN HTTP_400_BAD_REQUEST
    ELSE HTTP_500_INTERNAL_SERVER_ERROR

\* the response to a request the store answered with r
Response(r, ok_status, not_found, bad_request) ==
    Result(r.fs, StatusCode(r.out, ok_status, not_found, bad_request),
           [outcome |-> r.out, body |-> r.ret])

\* POST /projects/
ApiCreateProject(st, project_id, spec, t) ==
    Response(CreateProject(st, project_id, spec, t),
             HTTP_201_CREATED, {}, ValueErrors)

\* GET /projects/{project_id}
ApiGetProject(st, project_id) ==
    Response(LoadProject(st, project_id), HTTP_200_OK, {NotFound}, {})

\* the try block of update_project: load_project, ProjectSpec.model_validate
\* (a pydantic ValidationError is a ValueError), save_project, load_project
UpdateProject(st, project_id, spec, change_description, t) ==
    LET existing == LoadProject(st, project_id)
    IN  IF existing.out # Ok THEN existing
        ELSE IF ~ValidateWithPydantic(spec).is_valid
          THEN Result(existing.fs, InvalidSpec, None)
        ELSE LET saved == SaveProject(existing.fs, project_id, ModelValidate(spec),
                                      change_description, t)
             IN  IF saved.out # Ok THEN saved
                 ELSE LoadProject(saved.fs, project_id)

\* PUT /projects/{project_id}
ApiUpdateProject(st, project_id, spec, change_description, t) ==
    Response(UpdateProject(st, project_id, spec, change_description, t),
             HTTP_200_OK, {NotFound}, ValueErrors)

\* DELETE /projects/{project_id}
ApiDeleteProject(st, project_id) ==
    Response(DeleteProject(st, project_id), HTTP_204_NO_CONTENT, {NotFound}, {})

\* GET /projects/{project_id}/stats
ApiGetProjectStats(st, project_id) ==
    Response(GetProjectStats(st, project_id), HTTP_200_OK, {NotFound}, {})

\* POST /projects/{project_id}/snapshots/{snapshot_filename}/restore; the
\* FileNotFoundError caught is the one restore_snapshot raises and the one
\* the copy of a missing file raises
ApiRestoreSnapshot(st, project_id, snapshot_filename, t) ==
    Response(RestoreSnapshot(st, project_id, snapshot_filename, t),
             HTTP_200_OK, {NotFound, SnapshotNotFound, OsFileNotFound}, {})

(***************************************************************************)
(* What the callers submit.                                                 *)
(***************************************************************************)
RawDoc(ps, ins, outs, scns, hist) ==
    [lastUpdated |-> IsoFormat(0), problemStatement |-> ps, inScope |-> ins,
     outOfScope |-> outs, scenarios |-> scns, changeHistory |-> hist]

RawScenario(id, deps) == [id |-> id, dependencies |-> deps, level |-> Absent]

\* a scenario without id whose priority has the given level (Absent: the
\* scenario has no priority)
RawScenarioOfLevel(level) == [id |-> Absent, dependencies |-> <<>>, level |-> level]

\* a valid document, a longer valid one, one with overlapping scope, one that
\* fails the schema (empty problem statement)
DocA == RawDoc("problem A", <<"A">>, <<"C">>, <<>>, <<>>)
DocB == RawDoc("problem B", <<"A", "B">>, <<"C">>,
               <<RawScenario(<<"scn-", "a">>, <<>>),
                 RawScenario(<<"scn-", "b">>, <<<<"scn-", "a">>>>)>>,
               <<[date |-> IsoFormat(0), description |-> <<"drafted">>,
                  related |-> Absent]>>)
DocOverlap == RawDoc("problem O", <<"A", "B">>, <<"B", "C">>, <<>>, <<>>)
DocNoProblem == RawDoc("", <<"A">>, <<"C">>, <<>>, <<>>)
\* one that fails the schema and whose scope overlaps
DocNoProblemOverlap == RawDoc("", <<"A", "B">>, <<"B", "C">>, <<>>, <<>>)

RawDocs == {DocA, DocB, DocOverlap, DocNoProblem}

\* the ProjectSpec instances a caller can hand to save: built from a raw
\* document that passes the schema, or the document it loaded before
SubmittedSpecs(st, id) ==
    {ModelValidate(d) : d \in {r \in RawDocs : ValidateWithPydantic(r).is_valid}}
    \cup (IF LoadProject(st, id).out = Ok THEN {LoadProject(st, id).ret} ELSE {})

\* the change descriptions a caller gives to save: none, "", a text
ChangeDescriptions == {None, <<>>, <<"edit">>}

\* descriptions a caller gives to a snapshot
SnapshotDescriptions == {<<"manual", " ", "backup">>}

\* a snapshot file name no snapshot has
MissingName == [ts |-> 0, desc |-> <<"missing">>]

\* every snapshot file name a caller can ask restore for
SnapshotNames ==
    {SnapshotFileName(t, d) :
        t \in 0..MaxTime, d \in SnapshotDescriptions \cup {DescCreated, DescBackup}}
    \cup {MissingName}

\* the documents handed to the validator: every scope pair of up to MaxScope
\* items a side, and every list of up to MaxScenarios scenarios whose ids
\* are absent or one of ScnIds and whose dependencies are ScnIds (the
\* longest lists with one dependency less, which keeps the set small)
ScnIds == {<<"scn-", "a">>, <<"scn-", "b">>, <<"scn-", "c">>}
ScopeItems == {"A", "B", "C"}

SeqsUpTo(S, n) == UNION {[1..k -> S] : k \in 0..n}

ScenarioChoices(n) ==
    {RawScenario(id, deps) :
        id \in ScnIds \cup {Absent},
        deps \in SeqsUpTo(ScnIds, IF n < MaxScenarios THEN MaxDeps ELSE MaxDeps - 1)}

ScopeDocs ==
    {RawDoc("problem S", ins, outs, <<>>, <<>>) :
        ins \in SeqsUpTo(ScopeItems, MaxScope), outs \in SeqsUpTo(ScopeItems, MaxScope)}

ScenarioDocs ==
    {RawDoc("problem G", <<"A">>, <<"C">>, scns, <<>>) :
        scns \in UNION {[1..n -> ScenarioChoices(n)] : n \in 0..MaxScenarios}}

\* documents whose scenarios have a priority level or none, with a scope
\* that overlaps or not
PriorityLevels == {Absent, <<"MVP">>, <<"High">>}

PriorityDocs ==
    {RawDoc("problem P", <<"A">>, outs,
            [i \in DOMAIN levels |-> RawScenarioOfLevel(levels[i])], <<>>) :
        outs \in {<<"C">>, <<"A">>}, levels \in SeqsUpTo(PriorityLevels, MaxScenarios)}

ValDocs == RawDocs \cup {DocNoProblemOverlap} \cup ScopeDocs \cup ScenarioDocs \cup PriorityDocs

(***************************************************************************)
(* State.                                                                   *)
(***************************************************************************)
VARIABLES
    fs,     \* the directories and files under projects_root
    now,    \* the clock, in seconds
    last,   \* the operation that returned last: its arguments, the project's
            \* storage before it, its outcome and what it returned
    hs,     \* ConcSpec: per request handler, the operation it runs, where it
            \* is in it, its local variables, its outcome
    base,   \* ConcSpec: the store before the handlers started
    doc     \* ValSpec, RoundTripSpec: the raw document the caller holds

vars == <<fs, now, last, hs, base, doc>>

\* the request handlers (threads of the web layer's pool)
Handlers == {"h1", "h2"}

IdleHandler ==
    [pc |-> "idle", op |-> "none", id |-> "pa", arg |-> None, desc |-> None,
     spec |-> None, seen |-> NoFile, out |-> Ok, ret |-> None]

Project(st, id) == [dir |-> st.dir[id], live |-> st.live[id], snaps |-> st.snaps[id]]

Returned(op, id, arg, desc, r) ==
    [op |-> op, id |-> id, arg |-> arg, desc |-> desc, at |-> now,
     before |-> Project(fs, id), out |-> r.out, ret |-> r.ret]

NoOp ==
    [op |-> "none", id |-> "pa", arg |-> None, desc |-> None, at |-> 0,
     before |-> Project(EmptyStore, "pa"), out |-> Ok, ret |-> None]

Init ==
    /\ fs = EmptyStore
    /\ now = 0
    /\ last = NoOp
    /\ hs = [h \in Handlers |-> IdleHandler]
    /\ base = EmptyStore
    /\ doc = DocA

\* the history of the live document of a project, <<>> when there is none
HistoryOf(f) == IF f.kind = "json" THEN f.data.changeHistory ELSE <<>>

RoomForSnapshot(st, id, name) ==
    Cardinality(DOMAIN st.snaps[id] \cup {name}) <= MaxSnaps

(***************************************************************************)
(* Spec: one step per store operation.                                      *)
(***************************************************************************)
Create(id, raw) ==
    /\ LET r == CreateProject(fs, id, raw, now)
       IN  fs' = r.fs /\ last' = Returned("create", id, raw, None, r)
    /\ UNCHANGED <<now, hs, base, doc>>

Load(id) ==
    /\ LET r == LoadProject(fs, id)
       IN  fs' = r.fs /\ last' = Returned("load", id, None, None, r)
    /\ UNCHANGED <<now, hs, base, doc>>

Save(id, spec, desc) ==
    /\ Len(StampSpec(spec, desc, now).change_history) <= MaxHist
    /\ LET r == SaveProject(fs, id, spec, desc, now)
       IN  fs' = r.fs /\ last' = Returned("save", id, spec, desc, r)
    /\ UNCHANGED <<now, hs, base, doc>>

Delete(id) ==
    /\ LET r == DeleteProject(fs, id)
       IN  fs' = r.fs /\ last' = Returned("delete", id, None, None, r)
    /\ UNCHANGED <<now, hs, base, doc>>

Snapshot(id, desc) ==
    /\ RoomForSnapshot(fs, id, SnapshotFileName(now, desc))
    /\ LET r == CreateSnapshot(fs, id, desc, now)
       IN  fs' = r.fs /\ last' = Returned("snapshot", id, None, desc, r)
    /\ UNCHANGED <<now, hs, base, doc>>

Restore(id, name) ==
    /\ RoomForSnapshot(fs, id, SnapshotFileName(now, DescBackup))
    /\ name \in DOMAIN fs.snaps[id] => Len(HistoryOf(fs.snaps[id][name])) < MaxHist
    /\ LET r == RestoreSnapshot(fs, id, name, now)
       IN  fs' = r.fs /\ last' = Returned("restore", id, name, None, r)
    /\ UNCHANGED <<now, hs, base, doc>>

Tick ==
    /\ now < MaxTime
    /\ now' = now + 1
    /\ UNCHANGED <<fs, last, hs, base, doc>>

Next ==
    \/ \E id \in CallerIds, raw \in RawDocs : Create(id, raw)
    \/ \E id \in CallerIds : Load(id)
    \/ \E id \in CallerIds, desc \in ChangeDescriptions :
          \E spec \in SubmittedSpecs(fs, id) : Save(id, spec, desc)
    \/ \E id \in CallerIds : Delete(id)
    \/ \E id \in CallerIds, desc \in SnapshotDescriptions : Snapshot(id, desc)
    \/ \E id \in CallerIds : \E name \in DOMAIN fs.snaps[id] \cup {MissingName} : Restore(id, name)
    \/ Tick

Spec == Init /\ [][Next]_vars

(***************************************************************************)
(* ConcSpec: the request handlers run one operation each, statement by      *)
(* statement, with no lock between them (project.py takes none).  The       *)
(* clock stands still while they run.                                       *)
(***************************************************************************)
\* stores the handlers start from: projects_root with no project, as
\* create_project("pa", DocA) leaves it, and with a snapshot of a document
\* that fails validation
CreatedStore == CreateProject(EmptyStore, "pa", DocA, 0).fs

\* the store after create_project("pa", DocA), a save of DocOverlap (save
\* does not validate), a snapshot of it, and a save of the document created
OverlapSnapshotStore ==
    LET created == CreateProject(EmptyStore, "pa", DocA, 0)
        overlap == SaveProject(created.fs, "pa", ModelValidate(DocOverlap), None, 0)
        snapped == CreateSnapshot(overlap.fs, "pa", <<"manual", " ", "backup">>, 0)
    IN  SaveProject(snapped.fs, "pa", created.ret, None, 0).fs

ConcStores == {EmptyStore, CreatedStore, OverlapSnapshotStore}

ConcInit ==
    /\ fs \in ConcStores
    /\ base = fs
    /\ now = 0
    /\ last = NoOp
    /\ hs = [h \in Handlers |-> IdleHandler]
    /\ doc = DocA

Goto(h, label, st) ==
    /\ fs' = st
    /\ hs' = [hs EXCEPT ![h].pc = label]

GotoWith(h, label, st, spec) ==
    /\ fs' = st
    /\ hs' = [hs EXCEPT ![h].pc = label, ![h].spec = spec]

Finish(h, st, out, ret) ==
    /\ fs' = st
    /\ hs' = [hs EXCEPT ![h].pc = "done", ![h].out = out, ![h].ret = ret]

Request(h, op, id, arg, desc) ==
    [IdleHandler EXCEPT !.op = op, !.id = id, !.arg = arg, !.desc = desc]

\* save_project, lines 115-129: the existence check, the stamp, the entry
BeginSave(h, id, spec, desc) ==
    /\ hs[h].pc = "idle"
    /\ fs' = fs
    /\ hs' = [hs EXCEPT ![h] =
                IF ~fs.dir[id]
                  THEN [Request(h, "save", id, spec, desc) EXCEPT
                          !.pc = "done", !.out = NotFound]
                  ELSE [Request(h, "save", id, spec, desc) EXCEPT
                          !.pc = "open", !.spec = StampSpec(spec, desc, now)]]
    /\ UNCHANGED <<now, last, base, doc>>

\* _save_spec, line 141: open(spec_file, 'w')
StepOpen(h) ==
    /\ hs[h].pc = "open"
    /\ LET r == OpenForWrite(fs, hs[h].id)
       IN  IF r.out # Ok THEN Finish(h, r.fs, r.out, None) ELSE Goto(h, "dump", r.fs)
    /\ UNCHANGED <<now, last, base, doc>>

\* _save_spec, line 142: json.dump and the close of the file; create_project
\* goes on to its snapshot, save_project and restore_snapshot return
StepDump(h) ==
    /\ hs[h].pc = "dump"
    /\ LET r == DumpJson(fs, hs[h].id, hs[h].spec)
       IN  IF hs[h].op = "create" THEN Goto(h, "snapshot", r.fs)
           ELSE Finish(h, r.fs, Ok, hs[h].spec)
    /\ UNCHANGED <<now, last, base, doc>>

\* _save_spec, line 142: the write fails (disk full, I/O error) in save_project
\* after the file was opened
FailDump(h) ==
    /\ hs[h].pc = "dump"
    /\ hs[h].op = "save"
    /\ Finish(h, fs, OsWriteError, None)
    /\ UNCHANGED <<now, last, base, doc>>

\* create_project, lines 57-63: the existence check and the validation
BeginCreate(h, id, raw) ==
    /\ hs[h].pc = "idle"
    /\ fs' = fs
    /\ hs' = [hs EXCEPT ![h] =
                IF fs.dir[id]
                  THEN [Request(h, "create", id, raw, None) EXCEPT
                          !.pc = "done", !.out = AlreadyExists]
                ELSE IF ~ValidateFull(raw).is_valid
                  THEN [Request(h, "create", id, raw, None) EXCEPT
                          !.pc = "done", !.out = InvalidSpec]
                ELSE [Request(h, "create", id, raw, None) EXCEPT !.pc = "mkdir"]]
    /\ UNCHANGED <<now, last, base, doc>>

\* create_project, lines 66-81: the directories, the instance, its entry
StepMkdir(h) ==
    /\ hs[h].pc = "mkdir"
    /\ LET r == MakeDirs(fs, hs[h].id)
           spec == [ModelValidate(hs[h].arg) EXCEPT
                      !.change_history = Append(@, CreatedEntry(hs[h].id, now))]
       IN  IF r.out # Ok THEN Finish(h, r.fs, r.out, None)
           ELSE GotoWith(h, "open", r.fs, spec)
    /\ UNCHANGED <<now, last, base, doc>>

\* create_project, line 87: the initial snapshot
StepCreateSnapshot(h) ==
    /\ hs[h].pc = "snapshot"
    /\ LET r == CreateSnapshot(fs, hs[h].id, DescCreated, now)
       IN  Finish(h, r.fs, r.out, IF r.out = Ok THEN hs[h].spec ELSE None)
    /\ UNCHANGED <<now, last, base, doc>>

\* restore_snapshot, lines 224-228: the snapshot must exist
BeginRestore(h, id, name) ==
    /\ hs[h].pc = "idle"
    /\ fs' = fs
    /\ hs' = [hs EXCEPT ![h] =
                IF name \notin DOMAIN fs.snaps[id]
                  THEN [Request(h, "restore", id, name, None) EXCEPT
                          !.pc = "done", !.out = SnapshotNotFound]
                  ELSE [Request(h, "restore", id, name, None) EXCEPT !.pc = "backup"]]
    /\ UNCHANGED <<now, last, base, doc>>

\* restore_snapshot, line 231: the pre-restore backup
StepBackup(h) ==
    /\ hs[h].pc = "backup"
    /\ LET r == CreateSnapshot(fs, hs[h].id, DescBackup, now)
       IN  IF r.out # Ok THEN Finish(h, r.fs, r.out, None) ELSE Goto(h, "copy", r.fs)
    /\ UNCHANGED <<now, last, base, doc>>

\* restore_snapshot, line 235: the snapshot replaces the live file
StepCopyBack(h) ==
    /\ hs[h].pc = "copy"
    /\ LET r == CopyBack(fs, hs[h].id, hs[h].arg)
       IN  IF r.out # Ok THEN Finish(h, r.fs, r.out, None) ELSE Goto(h, "reload", r.fs)
    /\ UNCHANGED <<now, last, base, doc>>

\* restore_snapshot, lines 238-248: load_project and the restore entry
StepReload(h) ==
    /\ hs[h].pc = "reload"
    /\ LET r == LoadProject(fs, hs[h].id)
       IN  IF r.out # Ok THEN Finish(h, r.fs, r.out, None)
           ELSE GotoWith(h, "resave", r.fs,
                         [r.ret EXCEPT !.change_history =
                            Append(@, RestoredEntry(hs[h].arg, now))])
    /\ UNCHANGED <<now, last, base, doc>>

\* restore_snapshot, line 250: save_project's existence check and stamp
StepResave(h) ==
    /\ hs[h].pc = "resave"
    /\ IF ~fs.dir[hs[h].id] THEN Finish(h, fs, NotFound, None)
       ELSE GotoWith(h, "open", fs, StampSpec(hs[h].spec, None, now))
    /\ UNCHANGED <<now, last, base, doc>>

\* delete_project
DoDelete(h, id) ==
    /\ hs[h].pc = "idle"
    /\ LET r == DeleteProject(fs, id)
       IN  /\ fs' = r.fs
           /\ hs' = [hs EXCEPT ![h] = [Request(h, "delete", id, None, None) EXCEPT
                                         !.pc = "done", !.out = r.out]]
    /\ UNCHANGED <<now, last, base, doc>>

\* _create_snapshot called for a caller's description
DoSnapshot(h, id, desc) ==
    /\ hs[h].pc = "idle"
    /\ LET r == CreateSnapshot(fs, id, desc, now)
       IN  /\ fs' = r.fs
           /\ hs' = [hs EXCEPT ![h] = [Request(h, "snapshot", id, None, desc) EXCEPT
                                         !.pc = "done", !.out = r.out]]
    /\ UNCHANGED <<now, last, base, doc>>

\* load_project: reads the live file as it is at this moment
DoLoad(h, id) ==
    /\ hs[h].pc = "idle"
    /\ LET r == LoadProject(fs, id)
       IN  /\ fs' = r.fs
           /\ hs' = [hs EXCEPT ![h] = [Request(h, "load", id, None, None) EXCEPT
                                         !.pc = "done", !.seen = fs.live[id],
                                         !.out = r.out, !.ret = r.ret]]
    /\ UNCHANGED <<now, last, base, doc>>

ConcNext ==
    \E h \in Handlers :
        \/ \E id \in CallerIds, desc \in ChangeDescriptions :
              \E spec \in SubmittedSpecs(fs, id) : BeginSave(h, id, spec, desc)
        \/ StepOpen(h)
        \/ StepDump(h)
        \/ FailDump(h)
        \/ \E id \in CallerIds, raw \in RawDocs : BeginCreate(h, id, raw)
        \/ StepMkdir(h)
        \/ StepCreateSnapshot(h)
        \/ \E id \in CallerIds : \E name \in DOMAIN fs.snaps[id] \cup {MissingName} :
              BeginRestore(h, id, name)
        \/ StepBackup(h)
        \/ StepCopyBack(h)
        \/ StepReload(h)
        \/ StepResave(h)
        \/ \E id \in CallerIds : DoDelete(h, id)
        \/ \E id \in CallerIds, desc \in SnapshotDescriptions : DoSnapshot(h, id, desc)
        \/ \E id \in CallerIds : DoLoad(h, id)

ConcSpec == ConcInit /\ [][ConcNext]_vars

(***************************************************************************)
(* ParSpec: two request handlers, each on a project of its own, run one     *)
(* operation each, statement by statement; the read-side operations are     *)
(* among them.  The stores they start from hold what earlier operations     *)
(* and the user of the machine left in projects_root.                       *)
(***************************************************************************)
\* the project each handler is asked about
Home == [h \in Handlers |-> IF h = "h1" THEN "pa" ELSE "pb"]

\* create_project("pa", DocA) on one day and create_project("pb", DocB) on
\* the next
BothCreatedStore ==
    CreateProject(CreateProject(EmptyStore, "pa", DocA, 0).fs, "pb", DocB, MaxTime).fs

\* the same with "pb" the older project
BothCreatedReverseStore ==
    CreateProject(CreateProject(EmptyStore, "pb", DocB, 0).fs, "pa", DocA, MaxTime).fs

\* "pa" holds a document that fails validation: save_project wrote it
InvalidLiveStore ==
    SaveProject(BothCreatedStore, "pa", ModelValidate(DocOverlap), None, MaxTime).fs

\* "pa" holds a file that is not JSON: a save that opened spec.json and did
\* not get to write it
UnreadableLiveStore == OpenForWrite(BothCreatedStore, "pa").fs

\* a file in the snapshot directory of "pb" that the store did not name
ForeignName == [ts |-> NoTimestamp, desc |-> <<"notes">>]

ForeignFileStore ==
    [BothCreatedStore EXCEPT
       !.snaps["pb"] = (ForeignName :> JsonFile(DocA)) @@ BothCreatedStore.snaps["pb"]]

ParStores ==
    {EmptyStore, BothCreatedStore, BothCreatedReverseStore, InvalidLiveStore,
     UnreadableLiveStore, ForeignFileStore}

ParInit ==
    /\ fs \in ParStores
    /\ base = fs
    /\ now = MaxTime
    /\ last = NoOp
    /\ hs = [h \in Handlers |-> IdleHandler]
    /\ doc = DocA

\* a handler that has answered a read-side operation: it keeps the store it
\* read and the answer
Answer(op, id, st, r) ==
    [IdleHandler EXCEPT !.pc = "done", !.op = op, !.id = id, !.seen = st,
                        !.out = r.out, !.ret = r.ret]

\* list_projects
DoList(h) ==
    /\ hs[h].pc = "idle"
    /\ LET r == ListProjectsOp(fs)
       IN  /\ fs' = r.fs
           /\ hs' = [hs EXCEPT ![h] = Answer("list", Home[h], fs, r)]
    /\ UNCHANGED <<now, last, base, doc>>

\* list_snapshots
DoListSnapshots(h, id) ==
    /\ hs[h].pc = "idle"
    /\ LET r == ListSnapshotsOp(fs, id)
       IN  /\ fs' = r.fs
           /\ hs' = [hs EXCEPT ![h] = Answer("list_snapshots", id, fs, r)]
    /\ UNCHANGED <<now, last, base, doc>>

\* validate_project
DoValidateProject(h, id) ==
    /\ hs[h].pc = "idle"
    /\ LET r == ValidateProject(fs, id)
       IN  /\ fs' = r.fs
           /\ hs' = [hs EXCEPT ![h] = Answer("validate_project", id, fs, r)]
    /\ UNCHANGED <<now, last, base, doc>>

\* get_project_stats
DoStats(h, id) ==
    /\ hs[h].pc = "idle"
    /\ LET r == GetProjectStats(fs, id)
       IN  /\ fs' = r.fs
           /\ hs' = [hs EXCEPT ![h] = Answer("stats", id, fs, r)]
    /\ UNCHANGED <<now, last, base, doc>>

\* what handler h can do next
HandlerNext(h) ==
    \/ \E desc \in ChangeDescriptions :
          \E spec \in SubmittedSpecs(fs, Home[h]) : BeginSave(h, Home[h], spec, desc)
    \/ StepOpen(h)
    \/ StepDump(h)
    \/ FailDump(h)
    \/ \E raw \in RawDocs : BeginCreate(h, Home[h], raw)
    \/ StepMkdir(h)
    \/ StepCreateSnapshot(h)
    \/ \E name \in DOMAIN fs.snaps[Home[h]] \cup {MissingName} :
          BeginRestore(h, Home[h], name)
    \/ StepBackup(h)
    \/ StepCopyBack(h)
    \/ StepReload(h)
    \/ StepResave(h)
    \/ DoDelete(h, Home[h])
    \/ \E desc \in SnapshotDescriptions : DoSnapshot(h, Home[h], desc)
    \/ DoList(h)
    \/ \E id \in Ids : DoListSnapshots(h, id)
    \/ DoValidateProject(h, Home[h])
    \/ DoStats(h, Home[h])
    \/ DoLoad(h, Home[h])

ParNext == \E h \in Handlers : HandlerNext(h)

ParSpec == ParInit /\ [][ParNext]_vars

(***************************************************************************)
(* ApiSpec: one step per request to a projects endpoint, on a store that    *)
(* holds nothing, or a document save_project wrote without validating it,   *)
(* or a spec.json a failed write left empty.                                *)
(***************************************************************************)
\* UpdateProjectRequest.change_description: a string, "更新项目" when absent
DescUpdate == <<"update-project">>
ApiChangeDescriptions == {<<>>, DescUpdate}

ApiStores == {EmptyStore, InvalidLiveStore, UnreadableLiveStore}

ApiInit ==
    /\ fs \in ApiStores
    /\ base = fs
    /\ now = 0
    /\ last = NoOp
    /\ hs = [h \in Handlers |-> IdleHandler]
    /\ doc = DocA

ApiCreate(id, raw) ==
    /\ LET r == ApiCreateProject(fs, id, raw, now)
       IN  fs' = r.fs /\ last' = Returned("api_create", id, raw, None, r)
    /\ UNCHANGED <<now, hs, base, doc>>

ApiGet(id) ==
    /\ LET r == ApiGetProject(fs, id)
       IN  fs' = r.fs /\ last' = Returned("api_get", id, None, None, r)
    /\ UNCHANGED <<now, hs, base, doc>>

ApiUpdate(id, raw, desc) ==
    /\ LET r == ApiUpdateProject(fs, id, raw, desc, now)
       IN  fs' = r.fs /\ last' = Returned("api_update", id, raw, desc, r)
    /\ UNCHANGED <<now, hs, base, doc>>

ApiDelete(id) ==
    /\ LET r == ApiDeleteProject(fs, id)
       IN  fs' = r.fs /\ last' = Returned("api_delete", id, None, None, r)
    /\ UNCHANGED <<now, hs, base, doc>>

ApiStats(id) ==
    /\ LET r == ApiGetProjectStats(fs, id)
       IN  fs' = r.fs /\ last' = Returned("api_stats", id, None, None, r)
    /\ UNCHANGED <<now, hs, base, doc>>

ApiRestore(id, name) ==
    /\ RoomForSnapshot(fs, id, SnapshotFileName(now, DescBackup))
    /\ name \in DOMAIN fs.snaps[id] => Len(HistoryOf(fs.snaps[id][name])) < MaxHist
    /\ LET r == ApiRestoreSnapshot(fs, id, name, now)
       IN  fs' = r.fs /\ last' = Returned("api_restore", id, name, None, r)
    /\ UNCHANGED <<now, hs, base, doc>>

ApiNext ==
    \/ \E id \in CallerIds, raw \in RawDocs : ApiCreate(id, raw)
    \/ \E id \in CallerIds : ApiGet(id)
    \/ \E id \in CallerIds, raw \in RawDocs, desc \in ApiChangeDescriptions :
          ApiUpdate(id, raw, desc)
    \/ \E id \in CallerIds : ApiDelete(id)
    \/ \E id \in CallerIds : ApiStats(id)
    \/ \E id \in CallerIds : \E name \in DOMAIN fs.snaps[id] \cup {MissingName} :
          ApiRestore(id, name)
    \/ Tick

ApiSpec == ApiInit /\ [][ApiNext]_vars

(***************************************************************************)
(* ValSpec: the validator applied to the document the caller holds.         *)
(***************************************************************************)
ValInit ==
    /\ fs = EmptyStore
    /\ now = 0
    /\ last = NoOp
    /\ hs = [h \in Handlers |-> IdleHandler]
    /\ base = EmptyStore
    /\ doc \in ValDocs

\* validate_full(data) on the raw document
ValidateFullOp ==
    /\ last.op = "none"
    /\ last' = Returned("validate_full", "pa", doc, None,
                        Result(fs, Ok, ValidateFull(doc)))
    /\ UNCHANGED <<fs, now, hs, base, doc>>

\* validate_business_rules(spec) on the instance built from a document that
\* passes the schema
ValidateBusinessRulesOp ==
    /\ last.op = "none"
    /\ ValidateWithPydantic(doc).is_valid
    /\ last' = Returned("validate_business_rules", "pa", ModelValidate(doc), None,
                        Result(fs, Ok, ValidateBusinessRules(ModelValidate(doc))))
    /\ UNCHANGED <<fs, now, hs, base, doc>>

\* POST /validation/validate
ValidateSpecOp(validation_type) ==
    /\ last.op = "none"
    /\ LET response == ValidateSpec(doc, validation_type)
       IN  last' = [Returned("validate_spec", "pa", doc, None,
                             Result(fs, response.status, response.result))
                      EXCEPT !.desc = <<validation_type>>]
    /\ UNCHANGED <<fs, now, hs, base, doc>>

ValNext ==
    \/ ValidateFullOp
    \/ ValidateBusinessRulesOp
    \/ \E validation_type \in ValidationTypes : ValidateSpecOp(validation_type)

ValSpec == ValInit /\ [][ValNext]_vars

(***************************************************************************)
(* VersionSpec: is_version_compatible applied to a pair of strings.         *)
(***************************************************************************)
\* the characters of the version strings: digits, the dot, a sign, a letter
VersionChars == {"1", "2", ".", "+", "b"}
VersionStrings == SeqsUpTo(VersionChars, MaxVersionLen)

VersionInit ==
    /\ fs = EmptyStore
    /\ now = 0
    /\ last = NoOp
    /\ hs = [h \in Handlers |-> IdleHandler]
    /\ base = EmptyStore
    /\ doc \in VersionStrings \X VersionStrings

IsVersionCompatibleOp ==
    /\ last.op = "none"
    /\ last' = Returned("is_version_compatible", "pa", doc, None,
                        Result(fs, Ok, IsVersionCompatible(doc[1], doc[2])))
    /\ UNCHANGED <<fs, now, hs, base, doc>>

VersionNext == IsVersionCompatibleOp

VersionSpec == VersionInit /\ [][VersionNext]_vars

(***************************************************************************)
(* RoundTripSpec: create_project of the document, save_project of what it   *)
(* returned, load_project; the clock may advance in between.                *)
(***************************************************************************)
RoundTripInit ==
    /\ fs = EmptyStore
    /\ now = 0
    /\ last = NoOp
    /\ hs = [h \in Handlers |-> IdleHandler]
    /\ base = EmptyStore
    /\ doc \in ValDocs

RoundTripCreate ==
    /\ last.op = "none"
    /\ Create("pa", doc)

RoundTripSave(desc) ==
    /\ last.op = "create"
    /\ last.out = Ok
    /\ LET r == SaveProject(fs, "pa", last.ret, desc, now)
       IN  fs' = r.fs /\ last' = Returned("save", "pa", last.ret, desc, r)
    /\ UNCHANGED <<now, hs, base, doc>>

RoundTripLoad ==
    /\ last.op = "save"
    /\ Load("pa")

RoundTripNext ==
    \/ RoundTripCreate
    \/ \E desc \in ChangeDescriptions : RoundTripSave(desc)
    \/ RoundTripLoad
    \/ Tick

RoundTripSpec == RoundTripInit /\ [][RoundTripNext]_vars

(***************************************************************************)
(* Claims about the store, one operation per step (Spec).                   *)
(***************************************************************************)
\* a stored file passes full validation
PassesFullValidation(f) == f.kind = "json" /\ ValidateFull(f.data).is_valid

\* a document without the two fields every write changes
Content(data) == [data EXCEPT !.lastUpdated = IsoFormat(0), !.changeHistory = <<>>]

SameContent(f, g) == f.kind = "json" /\ g.kind = "json" /\ Content(f.data) = Content(g.data)

\* the name of the backup snapshot the last restore took
BackupName(op) == SnapshotFileName(op.at, DescBackup)

\* C1: in every reachable state the live document of every existing project
\* passes full validation (schema and business rules).
C1_LiveAlwaysValid ==
    \A id \in Ids : fs.live[id] # NoFile => PassesFullValidation(fs.live[id])

\* C2: after a successful restore(id, S) the live content equals the content S
\* had when restore was called, the snapshot set has grown by exactly one
\* pre-restore backup entry, and the live history is S's history plus exactly
\* one restore entry.
C2_RestoreInvariant ==
    (last.op = "restore" /\ last.out = Ok) =>
        LET S == last.before.snaps[last.arg]
            live == fs.live[last.id]
        IN  /\ SameContent(live, S)
            /\ BackupName(last) \notin DOMAIN last.before.snaps
            /\ DOMAIN fs.snaps[last.id] = DOMAIN last.before.snaps \cup {BackupName(last)}
            /\ HistoryOf(live) =
                 Append(HistoryOf(S), ChangeHistoryDump(RestoredEntry(last.arg, last.at)))

\* C3: after a successful restore(id, S) the backup snapshot B holds the live
\* document as it was before the restore, and a following restore(id, B)
\* succeeds and makes the live content equal to that pre-restore document.
C3_RestoreUndoable ==
    [][(last.op = "restore" /\ last.out = Ok) =>
          /\ BackupName(last) \in DOMAIN fs.snaps[last.id]
          /\ fs.snaps[last.id][BackupName(last)] = last.before.live
          /\ (/\ now' = now
              /\ last'.op = "restore"
              /\ last'.id = last.id
              /\ last'.arg = BackupName(last))
             => (/\ last'.out = Ok
                 /\ SameContent(fs'.live[last.id], last.before.live))]_vars

\* C4: for every successful save or restore on an existing project the
\* change history persisted before the operation is a prefix of the one
\* persisted after it.
C4_HistoryAppendOnly ==
    (last.op \in {"save", "restore"} /\ last.out = Ok /\ last.before.live.kind = "json") =>
        IsPrefix(HistoryOf(last.before.live), HistoryOf(fs.live[last.id]))

\* C5: a snapshot entry, once it exists, keeps its content and stays until the
\* project is deleted, and every successful snapshot-taking step (create,
\* snapshot, restore) adds a new entry.
C5_SnapshotsImmutable ==
    [][\A id \in Ids :
          /\ fs'.dir[id] =>
                \A n \in DOMAIN fs.snaps[id] :
                    n \in DOMAIN fs'.snaps[id] /\ fs'.snaps[id][n] = fs.snaps[id][n]
          /\ (/\ now' = now
              /\ last'.id = id
              /\ last'.op \in {"create", "snapshot", "restore"}
              /\ last'.out = Ok)
             => Cardinality(DOMAIN fs'.snaps[id]) = Cardinality(DOMAIN fs.snaps[id]) + 1]_vars

\* C6: load(id) returns a document only if the stored live document passes
\* full validation, and then returns that document; it fails with InvalidSpec
\* if the stored document does not validate and with NotFound if there is
\* none; it never changes the stored data.
C6_LoadFailClosed ==
    last.op = "load" =>
        LET stored == last.before.live
        IN  /\ last.out = Ok <=> PassesFullValidation(stored)
            /\ last.out = Ok => ModelDump(last.ret) = stored.data
            /\ stored = NoFile <=> last.out = NotFound
            /\ (stored # NoFile /\ ~PassesFullValidation(stored)) => last.out = InvalidSpec
            /\ Project(fs, last.id) = last.before

\* C6 witness: a load met a stored document that fails validation
C6_Witness ==
    /\ last.op = "load"
    /\ last.before.live.kind = "json"
    /\ ~PassesFullValidation(last.before.live)
    /\ last.out = InvalidSpec

\* the designed precondition failures of the last operation
FailedPrecondition(op) ==
    \/ op.op = "create" /\ op.before.dir
    \/ op.op = "create" /\ ~ValidateFull(op.arg).is_valid
    \/ op.op \in {"save", "delete"} /\ ~op.before.dir
    \/ op.op = "restore" /\ op.arg \notin DOMAIN op.before.snaps

\* C12: create on an identifier that has storage fails with AlreadyExists,
\* create of a document that fails full validation fails with InvalidSpec
\* and makes no storage, save and delete on a project that does not exist
\* fail with NotFound, restore of a snapshot that does not exist fails with
\* SnapshotNotFound and takes no backup; each leaves live document and
\* snapshot set as they were.
C12_PreconditionFailuresChangeNothing ==
    /\ (last.op = "create" /\ last.before.dir) => last.out = AlreadyExists
    /\ (last.op = "create" /\ ~last.before.dir /\ ~ValidateFull(last.arg).is_valid) =>
          last.out = InvalidSpec /\ ~fs.dir[last.id]
    /\ (last.op \in {"save", "delete"} /\ ~last.before.dir) => last.out = NotFound
    /\ (last.op = "restore" /\ last.arg \notin DOMAIN last.before.snaps) =>
          last.out = SnapshotNotFound
    /\ FailedPrecondition(last) => Project(fs, last.id) = last.before

\* C12 witness: a restore of a snapshot an existing project does not have
C12_Witness ==
    /\ last.op = "restore"
    /\ last.before.dir
    /\ last.before.live # NoFile
    /\ last.arg \notin DOMAIN last.before.snaps
    /\ last.out = SnapshotNotFound

\* C13: after a successful create(id, D) the project exists, the live
\* document is D with one "project created" entry after D's history, the
\* snapshot area holds exactly one snapshot, whose content is the live
\* document, and the returned document is the persisted one.
C13_CreatePostconditions ==
    (last.op = "create" /\ last.out = Ok) =>
        LET id == last.id
            D == last.arg
            live == fs.live[id]
        IN  /\ fs.dir[id]
            /\ live.kind = "json"
            /\ Content(live.data) = Content(D)
            /\ live.data.lastUpdated = D.lastUpdated
            /\ Len(live.data.changeHistory) = Len(D.changeHistory) + 1
            /\ IsPrefix(D.changeHistory, live.data.changeHistory)
            /\ live.data.changeHistory[Len(live.data.changeHistory)] =
                 [date |-> IsoFormat(Today(last.at)), description |-> <<"created", id>>,
                  related |-> <<"project">>]
            /\ Cardinality(DOMAIN fs.snaps[id]) = 1
            /\ \A n \in DOMAIN fs.snaps[id] : fs.snaps[id][n] = live
            /\ last.ret = ModelValidate(live.data)

\* C13 witness: a create of a document that has a history went through
C13_Witness ==
    /\ last.op = "create"
    /\ last.out = Ok
    /\ last.arg.changeHistory # <<>>
    /\ Cardinality(DOMAIN fs.snaps[last.id]) = 1

\* what a successful save persists, for a given reading of "a description is
\* provided"
SavePersists(provided) ==
    (last.op = "save" /\ last.out = Ok) =>
        LET id == last.id
            submitted == ModelDump(last.arg)
            live == fs.live[id]
        IN  /\ live.kind = "json"
            /\ Content(live.data) = Content(submitted)
            /\ live.data.lastUpdated = IsoFormat(Today(last.at))
            /\ live.data.changeHistory =
                 IF provided
                   THEN Append(submitted.changeHistory,
                               [date |-> IsoFormat(Today(last.at)),
                                description |-> last.desc, related |-> Absent])
                   ELSE submitted.changeHistory
            /\ fs.snaps[id] = last.before.snaps

\* C14, as stated: save persists doc with lastUpdated set to the current
\* date, its history followed by one entry carrying the description when a
\* change_description is given (whatever it is) and by none when none is
\* given; the snapshot set is unchanged.
C14_SavePostconditions_Stated == SavePersists(last.desc # None)

\* C14, amended: the entry is appended when the description given is not
\* empty; no entry is appended when there is none or it is "".
C14_SavePostconditions == SavePersists(last.desc # None /\ last.desc # <<>>)

\* C14 witness: a save with the description "" on a project with snapshots
C14_Witness ==
    /\ last.op = "save"
    /\ last.out = Ok
    /\ last.desc = <<>>
    /\ last.before.snaps # <<>>
    /\ fs.live[last.id].data.lastUpdated # ModelDump(last.arg).lastUpdated

\* C15: after a successful delete(id) no storage remains: load fails with
\* NotFound, list_snapshots is empty, every restore fails with
\* SnapshotNotFound, list() does not have id, and a create of a valid
\* document succeeds and starts with exactly one snapshot, a copy of the new
\* live document.
C15_DeleteRemovesAll ==
    \A id \in Ids :
        /\ (last.op = "delete" /\ last.id = id /\ last.out = Ok) => ~fs.dir[id]
        /\ ~fs.dir[id] =>
              /\ LoadProject(fs, id).out = NotFound
              /\ ListSnapshots(fs, id) = <<>>
              /\ \A name \in SnapshotNames \cup DOMAIN last.before.snaps :
                    RestoreSnapshot(fs, id, name, now).out = SnapshotNotFound
              /\ \A i \in DOMAIN ListProjects(fs) : ListProjects(fs)[i].id # id
              /\ \A raw \in RawDocs :
                    ValidateFull(raw).is_valid =>
                        LET created == CreateProject(fs, id, raw, now)
                        IN  /\ created.out = Ok
                            /\ Cardinality(DOMAIN created.fs.snaps[id]) = 1
                            /\ \A n \in DOMAIN created.fs.snaps[id] :
                                  created.fs.snaps[id][n] = created.fs.live[id]

\* C15 witness: a project with a backup snapshot beside the initial one was
\* deleted
C15_Witness ==
    /\ last.op = "delete"
    /\ last.out = Ok
    /\ Cardinality(DOMAIN last.before.snaps) > 1
    /\ ~fs.dir[last.id]

(***************************************************************************)
(* Claims about concurrent handlers (ConcSpec).                             *)
(***************************************************************************)
MutatingOps == {"create", "save", "delete", "snapshot", "restore"}

\* the operation handler record o asks for, run alone on store st
RunAlone(st, o) ==
    CASE o.op = "create" -> CreateProject(st, o.id, o.arg, now)
      [] o.op = "save" -> SaveProject(st, o.id, o.arg, o.desc, now)
      [] o.op = "delete" -> DeleteProject(st, o.id)
      [] o.op = "snapshot" -> CreateSnapshot(st, o.id, o.desc, now)
      [] o.op = "restore" -> RestoreSnapshot(st, o.id, o.arg, now)
      [] OTHER -> LoadProject(st, o.id)

\* C7: after concurrent saves on one project have all returned, the live
\* document is exactly one of the submitted documents, stamped and with its
\* entry.
C7_ConcurrentSavesPickOne ==
    (\A h \in Handlers : hs[h].pc = "done" /\ hs[h].op = "save" /\ hs[h].out = Ok) =>
        \A id \in Ids :
            (\A h \in Handlers : hs[h].id = id) =>
                \E h \in Handlers : fs.live[id] = JsonFile(ModelDump(hs[h].spec))

\* C8: two mutating operations running concurrently on one project leave the
\* store and return the outcomes of one of the two serial orders.
C8_Serializable ==
    (\A h \in Handlers :
        hs[h].pc = "done" /\ hs[h].op \in MutatingOps /\ hs[h].out # OsWriteError) =>
        \E h \in Handlers : \E g \in Handlers \ {h} :
            LET first == RunAlone(base, hs[h])
                second == RunAlone(first.fs, hs[g])
            IN  /\ fs = second.fs
                /\ hs[h].out = first.out
                /\ hs[g].out = second.out

\* C9: a load running beside a save, create or restore reads either the live
\* file as it was before the write or a complete document.
C9_NoPartialRead ==
    \A h \in Handlers :
        (/\ hs[h].op = "load"
         /\ hs[h].pc = "done"
         /\ \A g \in Handlers \ {h} : hs[g].op \in {"none", "save", "create", "restore"}) =>
            hs[h].seen = base.live[hs[h].id] \/ hs[h].seen.kind = "json"

\* C10: a save that fails after its existence check leaves the live document
\* as it was.
C10_FailedSaveKeepsDocument ==
    \A h \in Handlers :
        (/\ hs[h].op = "save"
         /\ hs[h].pc = "done"
         /\ hs[h].out = OsWriteError
         /\ \A g \in Handlers \ {h} : hs[g].pc = "idle") =>
            fs.live[hs[h].id] = base.live[hs[h].id]

\* C11: when restore(id, S) fails with InvalidSpec because S does not pass
\* validation, the live document is what it was before the call.
C11_RestoreFailsAtomically ==
    \A h \in Handlers :
        (/\ hs[h].op = "restore"
         /\ hs[h].pc = "done"
         /\ hs[h].out = InvalidSpec
         /\ \A g \in Handlers \ {h} : hs[g].pc = "idle") =>
            fs.live[hs[h].id] = base.live[hs[h].id]

(***************************************************************************)
(* Claims about create, save, load in a row (RoundTripSpec).                *)
(***************************************************************************)
\* C16: for a document D that passes full validation, create(id, D), save of
\* the returned document and load(id) succeed, and the loaded document is D
\* except for lastUpdated and the change-history entries appended to D's.
C16_RoundTrip ==
    /\ (last.op = "create" /\ ValidateFull(doc).is_valid) => last.out = Ok
    /\ last.op = "save" => last.out = Ok
    /\ last.op = "load" =>
          /\ last.out = Ok
          /\ Content(ModelDump(last.ret)) = Content(doc)
          /\ IsPrefix(doc.changeHistory, ModelDump(last.ret).changeHistory)

\* C16 witness: a document with two scenarios, a dependency and a history
\* came back from load
C16_Witness ==
    /\ last.op = "load"
    /\ last.out = Ok
    /\ doc = DocB
    /\ Len(last.ret.change_history) = 3

(***************************************************************************)
(* Claims about the validator (ValSpec).                                    *)
(***************************************************************************)
\* the errors of one type in a validation result
ErrorsOfType(result, type) == SelectSeq(result.errors, LAMBDA e : e.type = type)

\* the dependency graph of the scenarios: an edge from a scenario's id to
\* each id it depends on
DependencyEdges(spec) ==
    UNION {{<<spec.scenarios[i].id, spec.scenarios[i].dependencies[j]>> :
               j \in DOMAIN spec.scenarios[i].dependencies} :
             i \in {n \in DOMAIN spec.scenarios : spec.scenarios[n].id # None}}

\* the pairs joined by a path of edges of R
RECURSIVE TransitiveClosure(_)
TransitiveClosure(R) ==
    LET longer == R \cup {<<pq[1][1], pq[2][2]>> :
                            pq \in {x \in R \X R : x[1][2] = x[2][1]}}
    IN  IF longer = R THEN R ELSE TransitiveClosure(longer)

HasCycle(spec) == \E e \in TransitiveClosure(DependencyEdges(spec)) : e[1] = e[2]

\* C17: business-rule validation reports a circular_dependency error, and
\* finds the document invalid, exactly when the dependency graph of the
\* scenarios has a directed cycle, of whatever length.
C17_CycleDetectionGeneral ==
    last.op = "validate_business_rules" =>
        /\ ErrorsOfType(last.ret, "circular_dependency") # <<>> <=> HasCycle(last.arg)
        /\ HasCycle(last.arg) => ~last.ret.is_valid

\* the name a missing_dependency error gives the scenario that owns the
\* dependency
OwnerName(s) == IF s.id = None THEN <<"unknown">> ELSE s.id

\* the (scenario, dependency) occurrences whose dependency is no scenario's id
DanglingOccurrences(spec) ==
    {ij \in UNION {{<<i, j>> : j \in DOMAIN spec.scenarios[i].dependencies} :
                     i \in DOMAIN spec.scenarios} :
        \A n \in DOMAIN spec.scenarios :
            spec.scenarios[n].id # spec.scenarios[ij[1]].dependencies[ij[2]]}

\* C18: business-rule validation emits one missing_dependency error for
\* each (scenario, dependency) occurrence whose dependency is not the id of
\* any scenario, naming the scenario and the missing id, and none for a
\* dependency that exists.
C18_DanglingDependenciesExact ==
    last.op = "validate_business_rules" =>
        LET spec == last.arg
            missing == ErrorsOfType(last.ret, "missing_dependency")
            dangling == DanglingOccurrences(spec)
            names(ij) == [scenario_id |-> OwnerName(spec.scenarios[ij[1]]),
                          items |-> {spec.scenarios[ij[1]].dependencies[ij[2]]}]
            named(e) == [scenario_id |-> e.scenario_id, items |-> e.items]
        IN  /\ Len(missing) = Cardinality(dangling)
            /\ \A k \in DOMAIN missing : \E ij \in dangling : named(missing[k]) = names(ij)
            /\ \A ij \in dangling :
                  Cardinality({k \in DOMAIN missing : named(missing[k]) = names(ij)})
                    = Cardinality({x \in dangling : names(x) = names(ij)})

\* C18 witness: the one scenario scn-a depends on scn-b, which no scenario
\* is, and validation reported exactly one missing_dependency
C18_Witness ==
    /\ last.op = "validate_business_rules"
    /\ last.arg.scenarios =
         <<[id |-> <<"scn-", "a">>, dependencies |-> <<<<"scn-", "b">>>>, level |-> None]>>
    /\ Len(ErrorsOfType(last.ret, "missing_dependency")) = 1

\* the document with inScope and outOfScope exchanged
SwapScope(spec) ==
    [spec EXCEPT !.in_scope = spec.out_of_scope, !.out_of_scope = spec.in_scope]

\* C19: business-rule validation emits exactly one scope_overlap error, whose
\* items are the intersection of inScope and outOfScope, when the two lists
\* share an item, and none when they share none; with the two lists
\* exchanged the scope_overlap errors are the same.
C19_ScopeOverlapExact ==
    last.op = "validate_business_rules" =>
        LET spec == last.arg
            found == ErrorsOfType(last.ret, "scope_overlap")
            shared == {x \in Range(spec.in_scope) : \E k \in DOMAIN spec.out_of_scope :
                                                        spec.out_of_scope[k] = x}
            swapped == ErrorsOfType(ValidateBusinessRules(SwapScope(spec)), "scope_overlap")
        IN  /\ shared = {} => found = <<>>
            /\ shared # {} => Len(found) = 1 /\ found[1].items = shared
            /\ Range(swapped) = Range(found)

\* C19 witness: the lists share two items, one of them is not the first of
\* inScope, and validation reported one scope_overlap
C19_Witness ==
    /\ last.op = "validate_business_rules"
    /\ Cardinality(Range(last.arg.in_scope) \cap Range(last.arg.out_of_scope)) = 2
    /\ Len(ErrorsOfType(last.ret, "scope_overlap")) = 1

\* C20: a document in which two scenarios carry the same id does not pass
\* full validation.
C20_ScenarioIdsUnique ==
    (last.op = "validate_full" /\ last.ret.is_valid) =>
        \A i, j \in DOMAIN last.arg.scenarios :
            (i # j /\ last.arg.scenarios[i].id # Absent) =>
                last.arg.scenarios[i].id # last.arg.scenarios[j].id

\* the types of the errors the business rules give
BusinessErrorTypes == {"scope_overlap", "missing_dependency", "circular_dependency"}

\* the last step produced a ValidationResult
ProducedResult ==
    \/ last.op \in {"validate_full", "validate_business_rules"}
    \/ last.op = "validate_spec" /\ last.out = 200

\* C21: in the modes 'full' and 'business' the result is the schema result
\* when the schema fails and the business-rule result otherwise, and no
\* result holds schema field errors and business-rule errors together.
C21_StagedValidation ==
    /\ (last.op = "validate_spec" /\ last.desc \in {<<"full">>, <<"business">>}) =>
          /\ last.out = 200
          /\ SchemaErrors(doc) # <<>> =>
                /\ last.ret.errors = SchemaErrors(doc)
                /\ ~last.ret.is_valid
                /\ last.ret.warnings = <<>>
          /\ SchemaErrors(doc) = <<>> =>
                last.ret = ValidateBusinessRules(ModelValidate(doc))
    /\ ProducedResult =>
          ~(/\ \E k \in DOMAIN last.ret.errors : last.ret.errors[k].type \in BusinessErrorTypes
            /\ \E k \in DOMAIN last.ret.errors : last.ret.errors[k].type \notin BusinessErrorTypes)

\* C21 witness: the mode 'business' met a document that fails the schema and
\* whose scope overlaps, and returned the schema errors
C21_Witness ==
    /\ last.op = "validate_spec"
    /\ last.desc = <<"business">>
    /\ doc = DocNoProblemOverlap
    /\ last.ret.errors = SchemaErrors(doc)
    /\ ScopeOverlapErrors(ModelValidate(doc)) # <<>>

\* C22: in every ValidationResult of schema, business-rule or full
\* validation is_valid is true exactly when the error list is empty,
\* whatever the warnings.
C22_ValidIffNoErrors ==
    ProducedResult => (last.ret.is_valid <=> last.ret.errors = <<>>)

\* C22 witness: a result with a warning and no error is valid
C22_Witness ==
    /\ last.op = "validate_spec"
    /\ last.desc = <<"full">>
    /\ last.ret.warnings # <<>>
    /\ last.ret.errors = <<>>
    /\ last.ret.is_valid

\* the number of scenarios whose priority level is MVP
MvpCount(spec) ==
    Cardinality({i \in DOMAIN spec.scenarios : spec.scenarios[i].level = <<"MVP">>})

\* C23: the MVP-overload warning is given exactly when twice the number of
\* MVP scenarios exceeds the number of scenarios; not at exactly one half,
\* not without scenarios; the rule gives no error.
C23_MvpWarning ==
    last.op = "validate_business_rules" =>
        LET spec == last.arg
        IN  /\ last.ret.warnings # <<>> <=> 2 * MvpCount(spec) > Len(spec.scenarios)
            /\ Len(last.ret.warnings) <= 1
            /\ \A k \in DOMAIN last.ret.errors :
                  last.ret.errors[k].type \in BusinessErrorTypes
            /\ last.ret.is_valid <=>
                  /\ ScopeOverlapErrors(spec) = <<>>
                  /\ MissingDependencyErrors(spec) = <<>>
                  /\ CircularDependencyErrors(spec) = <<>>

\* C23 witness: one of two scenarios is MVP and there is no warning
C23_Witness ==
    /\ last.op = "validate_business_rules"
    /\ Len(last.arg.scenarios) = 2
    /\ MvpCount(last.arg) = 1
    /\ last.ret.warnings = <<>>

(***************************************************************************)
(* Claims about version strings (VersionSpec).                              *)
(***************************************************************************)
\* a version string of the form digits.digits or digits.digits.digits
WellFormedVersion(v) ==
    LET parts == SplitDots(v)
    IN  /\ Len(parts) \in {2, 3}
        /\ \A i \in DOMAIN parts :
              parts[i] # <<>> /\ \A j \in DOMAIN parts[i] : parts[i][j] \in {"1", "2"}

\* the major number of a well-formed version
MajorOf(v) == DigitsValue(SplitDots(v)[1])

\* C24: is_version_compatible returns a boolean for every pair of strings:
\* true when both are well-formed with equal major numbers, false when the
\* majors differ, false when either string is malformed.
C24_VersionCompatible ==
    last.op = "is_version_compatible" =>
        LET spec_version == last.arg[1]
            schema_version == last.arg[2]
            wellFormed == WellFormedVersion(spec_version) /\ WellFormedVersion(schema_version)
        IN  /\ last.out = Ok
            /\ last.ret \in BOOLEAN
            /\ wellFormed =>
                  (last.ret <=> MajorOf(spec_version) = MajorOf(schema_version))
            /\ ~wellFormed => last.ret = FALSE


(***************************************************************************)
(* Claims checked under ParSpec.                                            *)
(***************************************************************************)
\* the handlers that have answered op
Answered(op) == {h \in Handlers : hs[h].op = op /\ hs[h].pc = "done"}

\* C25: list() answers with one summary for each project whose stored live
\* document passes full validation and with none for a project whose
\* document fails validation or cannot be read, it does not fail, and the
\* summaries are in non-increasing last_updated order.
C25_ListExactlyValidProjects ==
    \A h \in Answered("list") :
        LET st == hs[h].seen
            ret == hs[h].ret
        IN  /\ hs[h].out = Ok
            /\ \A id \in Ids :
                  Cardinality({i \in DOMAIN ret : ret[i].id = id})
                    = IF PassesFullValidation(st.live[id]) THEN 1 ELSE 0
            /\ \A i, j \in DOMAIN ret :
                  i < j => ret[i].last_updated >= ret[j].last_updated

\* a list() that read a store with a project to leave out and a project to
\* list
C25_Witness ==
    \E h \in Answered("list") :
        /\ \E id \in Ids : /\ hs[h].seen.live[id] # NoFile
                            /\ ~PassesFullValidation(hs[h].seen.live[id])
        /\ \E id \in Ids : PassesFullValidation(hs[h].seen.live[id])
        /\ Len(hs[h].ret) = 1

\* the file names of a snapshot directory that start with a timestamp
ParseableNames(st, id) == {n \in DOMAIN st.snaps[id] : n.ts \in 0..MaxTime}

\* the names create_project and restore_snapshot give their snapshots
StoreMadeNames ==
    {SnapshotFileName(t, d) : t \in 0..MaxTime, d \in {DescCreated, DescBackup}}

\* C26: list_snapshots(id) answers with the files of the snapshot directory
\* whose name parses back into a timestamp, each once, in non-increasing
\* timestamp order, and with no other file; the snapshots create_project and
\* restore_snapshot made are among them.
C26_ListSnapshotsExactlyParseable ==
    \A h \in Answered("list_snapshots") :
        LET st == hs[h].seen
            id == hs[h].id
            ret == hs[h].ret
        IN  /\ hs[h].out = Ok
            /\ \A n \in DOMAIN st.snaps[id] :
                  Cardinality({i \in DOMAIN ret : ret[i].filename = n})
                    = IF n \in ParseableNames(st, id) THEN 1 ELSE 0
            /\ Len(ret) = Cardinality(ParseableNames(st, id))
            /\ \A i \in DOMAIN ret : ret[i].timestamp = ret[i].filename.ts
            /\ \A i, j \in DOMAIN ret :
                  i < j => ret[i].timestamp >= ret[j].timestamp
            /\ \A n \in DOMAIN st.snaps[id] \cap StoreMadeNames :
                  \E i \in DOMAIN ret : ret[i].filename = n

\* a list_snapshots of a directory that holds a file the store did not name
\* next to a snapshot the store made
C26_Witness ==
    \E h \in Answered("list_snapshots") :
        LET names == DOMAIN hs[h].seen.snaps[hs[h].id]
        IN  /\ ForeignName \in names
            /\ names \cap StoreMadeNames # {}
            /\ Len(hs[h].ret) >= 1

\* the operations that write
WritingOps == {"create", "save", "delete", "snapshot", "restore"}

\* the handlers that take a step
Stepping == {h \in Handlers : hs'[h].pc # hs[h].pc}

\* the next statement of the operation handler h is in the middle of
Continue(h) ==
    \/ StepOpen(h)
    \/ StepDump(h)
    \/ StepMkdir(h)
    \/ StepCreateSnapshot(h)
    \/ StepBackup(h)
    \/ StepCopyBack(h)
    \/ StepReload(h)
    \/ StepResave(h)

\* handler h can go on: start each of the writing operations on its project
\* when it has none, take the next statement of the one it has
NotBlocked(h) ==
    IF hs[h].pc = "idle"
      THEN /\ ENABLED BeginCreate(h, Home[h], DocA)
           /\ ENABLED BeginSave(h, Home[h], ModelValidate(DocA), None)
           /\ ENABLED DoDelete(h, Home[h])
           /\ ENABLED DoSnapshot(h, Home[h], DescCreated)
           /\ ENABLED BeginRestore(h, Home[h], MissingName)
      ELSE ENABLED Continue(h)

ReadingOps == {"load", "list", "list_snapshots", "validate_project", "stats"}

\* C30: load, list, list_snapshots, validate_project and stats, answered or
\* failed, leave the store as it was, with no directory made for an
\* identifier that had none, and list_snapshots of an identifier without
\* storage answers with the empty list.
C30_ReadsLeaveStorage ==
    [][\A h \in Stepping : hs'[h].op \in ReadingOps =>
          /\ fs' = fs
          /\ (hs'[h].op = "list_snapshots" /\ ~fs.dir[hs'[h].id]) =>
                (hs'[h].out = Ok /\ hs'[h].ret = <<>>)]_vars

\* a list_snapshots of an identifier without storage has answered, and a
\* read of the other handler has failed
C30_Witness ==
    \E h \in Answered("list_snapshots"), g \in Handlers :
        /\ ~hs[h].seen.dir[hs[h].id]
        /\ ~fs.dir[hs[h].id]
        /\ hs[g].pc = "done"
        /\ hs[g].op \in {"load", "validate_project", "stats"}
        /\ hs[g].out # Ok


(***************************************************************************)
(* Claims checked under ApiSpec.                                            *)
(***************************************************************************)
ClientErrors == {HTTP_400_BAD_REQUEST, HTTP_404_NOT_FOUND}

\* C28: the update endpoint validates before it saves: a submitted document
\* that fails full validation is not persisted, and whenever the endpoint
\* answers with a client error the stored live document is the one from
\* before the request and a load that succeeded before still succeeds.
C28_UpdateValidatesBeforeSave ==
    last.op = "api_update" =>
        /\ ~ValidateFull(last.arg).is_valid => fs.live[last.id] = last.before.live
        /\ last.out \in ClientErrors =>
              /\ fs.live[last.id] = last.before.live
              /\ PassesFullValidation(last.before.live) =>
                    LoadProject(fs, last.id).out = Ok

\* C29: every projects endpoint answers 404 when the store reports a missing
\* project or snapshot, 400 when it reports an invalid document, 500 to every
\* other failure and a success code otherwise; a get or a restore that hits
\* a stored document failing validation answers 400.
C29_UniformErrorMapping ==
    last.op \in {"api_get", "api_create", "api_update", "api_delete",
                 "api_stats", "api_restore"} =>
        LET outcome == last.ret.outcome
        IN  /\ outcome = Ok =>
                  last.out \in {HTTP_200_OK, HTTP_201_CREATED, HTTP_204_NO_CONTENT}
            /\ outcome \in {NotFound, SnapshotNotFound} => last.out = HTTP_404_NOT_FOUND
            /\ outcome = InvalidSpec => last.out = HTTP_400_BAD_REQUEST
            /\ outcome = AlreadyExists => last.out \in ClientErrors
            /\ outcome \in {OsFileNotFound, OsFileExists, OsWriteError} =>
                  last.out = HTTP_500_INTERNAL_SERVER_ERROR

=============================================================================
